---- MODULE Spec2Model ----
(***************************************************************************)
(* PyBatPredictor (main.py): table transformations over battery test       *)
(* time-series data.  A DataFrame is modelled column-major, as pandas      *)
(* stores it: an ordered list of column names, a row index (the Date_Time  *)
(* keys the test script sets as index) and one value sequence per column.  *)
(*                                                                         *)
(* Units.  All cell values are integers: voltages in centivolts (0.01 V),  *)
(* Test_Time(s) in seconds, Current(A) in amperes, Date_Time keys in days, *)
(* SOC values in thousandths of a percent (the code rounds them to three   *)
(* decimals).  Capacities are exact rationals [num, den] in Ah.            *)
(*                                                                         *)
(* A call either returns a value, Ok(v), or raises, Err(kind), where kind  *)
(* is the Python exception the statement raises.                           *)
(***************************************************************************)
EXTENDS Integers, Sequences, FiniteSets, TLC

VARIABLES df, call, result

vars == <<df, call, result>>

\* ------------------------------------------------------------------ bounds

\* Largest number of rows of an input table.
MaxRows == 3

\* Cell voltages of the enumerated tables (centivolts).
Volts == {180, 190, 200}

\* Cutoff voltages passed to trim_to_cutoff_voltage (the test script passes 2 V).
Cutoffs == {190, 200}

\* Voltages looked up in a reference table: on and between the table's values.
LookupVolts == Volts \cup {185, 195}

\* Current(A) samples and Test_Time(s) samples of the load tables.
Currents == {-2, -1}
TestTimes == {0, 10, 30, 60}

\* Date_Time keys (days) and step values of the step tables.
Keys == 1..3
Steps == {12, 13}

\* ------------------------------------------------------------ basic helpers

Range(s) == {s[i] : i \in 1..Len(s)}

Last(s) == s[Len(s)]

Abs(x) == IF x < 0 THEN -x ELSE x

Ok(v) == [ok |-> TRUE, val |-> v]

Err(kind) == [ok |-> FALSE, err |-> kind]

RECURSIVE GCD(_, _)
GCD(a, b) == IF b = 0 THEN a ELSE GCD(b, a % b)

\* Exact rational num/den, den > 0, in lowest terms.
Rat(n, d) ==
    LET g == GCD(Abs(n), Abs(d))
        s == IF d < 0 THEN -1 ELSE 1
    IN [num |-> (s * n) \div g, den |-> (s * d) \div g]

\* Sum and product, over the least common denominator and with the common
\* factors cancelled first, so that the intermediate integers stay small.
RatAdd(p, q) ==
    LET g == GCD(p.den, q.den)
    IN Rat(p.num * (q.den \div g) + q.num * (p.den \div g), (p.den \div g) * q.den)

RatMul(p, q) ==
    LET g1 == GCD(Abs(p.num), q.den)
        g2 == GCD(Abs(q.num), p.den)
    IN Rat((p.num \div g1) * (q.num \div g2), (p.den \div g2) * (q.den \div g1))

\* p / q rounded to the nearest integer, halves to the even neighbour
\* (numpy's round), for q > 0.
RoundHalfEven(p, q) ==
    LET f == p \div q
        r == p % q
    IN IF 2 * r < q THEN f
       ELSE IF 2 * r > q THEN f + 1
       ELSE IF f % 2 = 0 THEN f ELSE f + 1

\* --------------------------------------------------------------- DataFrame

DataFrame(columns, index, data) ==
    [columns |-> columns, index |-> index, data |-> data]

NRows(d) == Len(d.index)

\* Positions of the TRUE entries of a boolean mask, in increasing order.
Positions(mask) ==
    LET F[i \in 0..Len(mask)] ==
            IF i = 0 THEN <<>>
            ELSE IF mask[i] THEN Append(F[i - 1], i) ELSE F[i - 1]
    IN F[Len(mask)]

Take(s, pos) == [k \in 1..Len(pos) |-> s[pos[k]]]

\* d[mask]: boolean-mask row selection; keeps the selected rows in order.
SelectRows(d, mask) ==
    LET pos == Positions(mask)
    IN DataFrame(d.columns, Take(d.index, pos),
                 [c \in DOMAIN d.data |-> Take(d.data[c], pos)])

\* --------------------------------------------------------- program constants

\* Default of isolate_step_index's col_name parameter.
DefaultStepColName == "Step_Index"

\* np.linspace(100, 0, ...): the SOC ramp's end points (percent).
SOCStart == 100
SOCStop == 0

\* .round(3): SOC values are kept in thousandths.
Milli == 1000

\* Seconds per hour, the divisor of the integrated charge.
SecondsPerHour == 3600

\* smallest_cap*soc/100: SOC is a percentage.
Percent == 100

\* ------------------------------------------------------------- column names

\* The tables' column names are "Test_Time(s)", "Current(A)", "Voltage(V)",
\* "Step_Index", "Cycle_Index", "Aux_Voltage_1(V)" and "Aux_Voltage_2(V)".
\* Python's substring test, f-string and string replacement are tabulated
\* over these names.

\* "Aux_Voltage_" in name
ContainsAuxVoltage(name) ==
    CASE name = "Aux_Voltage_1(V)" -> TRUE
      [] name = "Aux_Voltage_2(V)" -> TRUE
      [] OTHER -> FALSE

\* f"{smallest_cell}(REF)"
RefName(cell) ==
    CASE cell = "Aux_Voltage_1(V)" -> "Aux_Voltage_1(V)(REF)"
      [] cell = "Aux_Voltage_2(V)" -> "Aux_Voltage_2(V)(REF)"
      [] cell = "Voltage(V)" -> "Voltage(V)(REF)"
      [] cell = "Current(A)" -> "Current(A)(REF)"
      [] cell = "Test_Time(s)" -> "Test_Time(s)(REF)"
      [] cell = "Step_Index" -> "Step_Index(REF)"
      [] cell = "Cycle_Index" -> "Cycle_Index(REF)"

\* cell.replace("Aux_Voltage_", "Cell ").replace("(V)", "")
CellID(cell) ==
    CASE cell = "Aux_Voltage_1(V)" -> "Cell 1"
      [] cell = "Aux_Voltage_2(V)" -> "Cell 2"

\* ------------------------------------------------------------ the functions

\* df[start_date:stop_date] on the sorted Date_Time index: a label slice,
\* both ends included.
isolate_timeinterval(d, start_date, stop_date) ==
    SelectRows(d, [i \in 1..NRows(d) |->
                      start_date <= d.index[i] /\ d.index[i] <= stop_date])

\* df[df[col_name] == step_index]
isolate_step_index(d, step_index, col_name) ==
    IF col_name \notin Range(d.columns) THEN Err("KeyError")
    ELSE Ok(SelectRows(d, [i \in 1..NRows(d) |-> d.data[col_name][i] = step_index]))

\* The interval filter, then isolate_step_index(df_temp, step_index): the
\* call passes no column name, so the default applies.
isolate_step_index_in_timeinterval(d, start_date, stop_date, step_index, step_col_name) ==
    LET df_temp == isolate_timeinterval(d, start_date, stop_date)
    IN isolate_step_index(df_temp, step_index, DefaultStepColName)

\* Mutant of calculate_testtime: a table without rows yields an empty series
\* instead of raising.
calculate_testtime_empty_ok(d) ==
    IF "Test_Time(s)" \notin Range(d.columns) THEN Err("KeyError")
    ELSE LET t == d.data["Test_Time(s)"]
         IN Ok([i \in 1..NRows(d) |-> t[i] - t[1]])

\* df["Test_Time(s)"] - df["Test_Time(s)"][0]
calculate_testtime(d) ==
    IF "Test_Time(s)" \notin Range(d.columns) THEN Err("KeyError")
    ELSE IF NRows(d) = 0 THEN Err("IndexError")
    ELSE LET t == d.data["Test_Time(s)"]
         IN Ok([i \in 1..NRows(d) |-> t[i] - t[1]])

\* [name for name in col_names if "Aux_Voltage_" in name]
get_voltage_column_list(d) == SelectSeq(d.columns, ContainsAuxVoltage)

get_number_voltage_columns(d) == Len(get_voltage_column_list(d))

\* Mutant of trim_to_cutoff_voltage: the comparison is strict, so a row at
\* exactly the cutoff voltage is dropped.
trim_to_cutoff_voltage_strict(d, cutoff_voltage) ==
    LET voltage_column_list == get_voltage_column_list(d)
        loop[k \in 0..Len(voltage_column_list)] ==
            IF k = 0 THEN d
            ELSE LET cur == loop[k - 1]
                     col == voltage_column_list[k]
                 IN SelectRows(cur, [i \in 1..NRows(cur) |->
                                        cur.data[col][i] > cutoff_voltage])
    IN loop[Len(voltage_column_list)]

\* for col in voltage_column_list: df = df[df[col] >= cutoff_voltage]
trim_to_cutoff_voltage(d, cutoff_voltage) ==
    LET voltage_column_list == get_voltage_column_list(d)
        loop[k \in 0..Len(voltage_column_list)] ==
            IF k = 0 THEN d
            ELSE LET cur == loop[k - 1]
                     col == voltage_column_list[k]
                 IN SelectRows(cur, [i \in 1..NRows(cur) |->
                                        cur.data[col][i] >= cutoff_voltage])
    IN loop[Len(voltage_column_list)]

\* Mutant of get_smallest_voltage_cell: the comparison is <=, so the last of
\* several minimal columns wins.
get_smallest_voltage_cell_last_min(d) ==
    LET voltage_column_list == get_voltage_column_list(d)
        loop[k \in 0..Len(voltage_column_list)] ==
            IF k = 0 THEN voltage_column_list[1]
            ELSE LET cell == voltage_column_list[k]
                     smallest_voltage_cell == loop[k - 1]
                 IN IF Last(d.data[cell]) <= Last(d.data[smallest_voltage_cell])
                    THEN cell ELSE smallest_voltage_cell
    IN IF voltage_column_list = <<>> THEN Err("IndexError")
       ELSE IF NRows(d) = 0 THEN Err("IndexError")
       ELSE Ok(loop[Len(voltage_column_list)])

\* Mutant of get_smallest_voltage_cell: without voltage columns it falls back
\* to the table's first column instead of raising.
get_smallest_voltage_cell_default(d) ==
    LET voltage_column_list == get_voltage_column_list(d)
        loop[k \in 0..Len(voltage_column_list)] ==
            IF k = 0 THEN voltage_column_list[1]
            ELSE LET cell == voltage_column_list[k]
                     smallest_voltage_cell == loop[k - 1]
                 IN IF Last(d.data[cell]) < Last(d.data[smallest_voltage_cell])
                    THEN cell ELSE smallest_voltage_cell
    IN IF voltage_column_list = <<>> THEN Ok(d.columns[1])
       ELSE IF NRows(d) = 0 THEN Err("IndexError")
       ELSE Ok(loop[Len(voltage_column_list)])

\* voltage_column_list[0] raises on an empty list; df[cell][-1] raises on a
\* table without rows.
get_smallest_voltage_cell(d) ==
    LET voltage_column_list == get_voltage_column_list(d)
        loop[k \in 0..Len(voltage_column_list)] ==
            IF k = 0 THEN voltage_column_list[1]
            ELSE LET cell == voltage_column_list[k]
                     smallest_voltage_cell == loop[k - 1]
                 IN IF Last(d.data[cell]) < Last(d.data[smallest_voltage_cell])
                    THEN cell ELSE smallest_voltage_cell
    IN IF voltage_column_list = <<>> THEN Err("IndexError")
       ELSE IF NRows(d) = 0 THEN Err("IndexError")
       ELSE Ok(loop[Len(voltage_column_list)])

\* Mutant of linspace_round: endpoint=False, the step is (stop - start)/num
\* and the ramp stops one step short of stop.
linspace_round_no_endpoint(start, stop, num) ==
    [k \in 1..num |->
        RoundHalfEven(Milli * (start * num + (k - 1) * (stop - start)), num)]

\* np.linspace(start, stop, num, endpoint=True).round(3), in thousandths:
\* start + i*(stop - start)/(num - 1) for i = 0..num-1; a single sample is
\* start.
linspace_round(start, stop, num) ==
    [k \in 1..num |->
        IF num = 1 THEN Milli * start
        ELSE RoundHalfEven(Milli * (start * (num - 1) + (k - 1) * (stop - start)),
                           num - 1)]

\* Mutant of get_SOC_reference: the ramp's end points are swapped, the SOC
\* rises from 0 to 100.
get_SOC_reference_rising(d) ==
    LET testtime == calculate_testtime(d)
        smallest_cell == get_smallest_voltage_cell(d)
    IN IF ~testtime.ok THEN testtime
       ELSE IF ~smallest_cell.ok THEN smallest_cell
       ELSE LET ref == RefName(smallest_cell.val)
                soc == linspace_round(SOCStop, SOCStart, NRows(d))
            IN Ok(DataFrame(<<ref, "SOC_Ref">>, testtime.val,
                            [c \in {ref, "SOC_Ref"} |->
                                IF c = "SOC_Ref" THEN soc
                                ELSE d.data[smallest_cell.val]]))

\* The lookup table: index = rebased test time, first column the reference
\* cell's voltage, second column the SOC ramp.
get_SOC_reference(d) ==
    LET testtime == calculate_testtime(d)
        smallest_cell == get_smallest_voltage_cell(d)
    IN IF ~testtime.ok THEN testtime
       ELSE IF ~smallest_cell.ok THEN smallest_cell
       ELSE LET ref == RefName(smallest_cell.val)
                soc == linspace_round(SOCStart, SOCStop, NRows(d))
            IN Ok(DataFrame(<<ref, "SOC_Ref">>, testtime.val,
                            [c \in {ref, "SOC_Ref"} |->
                                IF c = "SOC_Ref" THEN soc
                                ELSE d.data[smallest_cell.val]]))

\* Mutant of argmin: the index of the last occurrence of the minimum.
argmin_last(s) ==
    LET loop[k \in 1..Len(s)] ==
            IF k = 1 THEN 1
            ELSE IF s[k] <= s[loop[k - 1]] THEN k ELSE loop[k - 1]
    IN loop[Len(s)]

\* np.argmin: the index of the first occurrence of the minimum.
argmin(s) ==
    LET loop[k \in 1..Len(s)] ==
            IF k = 1 THEN 1
            ELSE IF s[k] < s[loop[k - 1]] THEN k ELSE loop[k - 1]
    IN loop[Len(s)]

\* refdf.iloc[np.argmin(abs(refdf[refdf.columns[0]] - voltage))][1];
\* argmin of an empty sequence raises.
soc_from_lut(refdf, voltage) ==
    LET ref == refdf.data[refdf.columns[1]]
        dist == [i \in 1..Len(ref) |-> Abs(ref[i] - voltage)]
    IN IF NRows(refdf) = 0 THEN Err("ValueError")
       ELSE Ok(refdf.data[refdf.columns[2]][argmin(dist)])

\* np.trapz(y, x): sum of (x[i+1] - x[i]) * (y[i+1] + y[i]) / 2; the sum
\* here is twice the integral.
trapz2(y, x) ==
    LET loop[k \in 1..Len(x)] ==
            IF k = 1 THEN 0
            ELSE loop[k - 1] + (x[k] - x[k - 1]) * (y[k] + y[k - 1])
    IN IF Len(x) = 0 THEN 0 ELSE loop[Len(x)]

\* -np.trapz(df["Current(A)"], df["Test_Time(s)"]) / 3600
get_smallest_cap_cell(d) ==
    IF "Current(A)" \notin Range(d.columns) THEN Err("KeyError")
    ELSE IF "Test_Time(s)" \notin Range(d.columns) THEN Err("KeyError")
    ELSE Ok(Rat(-trapz2(d.data["Current(A)"], d.data["Test_Time(s)"]),
                2 * SecondsPerHour))

\* Mutant of get_final_SOC: each column's first value is looked up instead
\* of its last.
get_final_SOC_first_row(d) ==
    LET refdf == get_SOC_reference(d)
        smallest_cap == get_smallest_cap_cell(d)
        voltage_cols == get_voltage_column_list(d)
        soc(col) == soc_from_lut(refdf.val, d.data[col][1]).val
        cap(col) == RatAdd(smallest_cap.val,
                           RatMul(smallest_cap.val, Rat(soc(col), Milli * Percent)))
    IN IF ~refdf.ok THEN refdf
       ELSE IF ~smallest_cap.ok THEN smallest_cap
       ELSE Ok(DataFrame(<<"SOC (%)", "Capacity (Ah)">>,
                         [k \in 1..Len(voltage_cols) |-> CellID(voltage_cols[k])],
                         [c \in {"SOC (%)", "Capacity (Ah)"} |->
                             IF c = "SOC (%)"
                             THEN [k \in 1..Len(voltage_cols) |-> soc(voltage_cols[k])]
                             ELSE [k \in 1..Len(voltage_cols) |-> cap(voltage_cols[k])]]))

\* One output row per voltage column: the SOC looked up for the column's
\* last value and smallest_cap + smallest_cap*soc/100, indexed by cell ID.
get_final_SOC(d) ==
    LET refdf == get_SOC_reference(d)
        smallest_cap == get_smallest_cap_cell(d)
        voltage_cols == get_voltage_column_list(d)
        soc(col) == soc_from_lut(refdf.val, Last(d.data[col])).val
        cap(col) == RatAdd(smallest_cap.val,
                           RatMul(smallest_cap.val, Rat(soc(col), Milli * Percent)))
    IN IF ~refdf.ok THEN refdf
       ELSE IF ~smallest_cap.ok THEN smallest_cap
       ELSE Ok(DataFrame(<<"SOC (%)", "Capacity (Ah)">>,
                         [k \in 1..Len(voltage_cols) |-> CellID(voltage_cols[k])],
                         [c \in {"SOC (%)", "Capacity (Ah)"} |->
                             IF c = "SOC (%)"
                             THEN [k \in 1..Len(voltage_cols) |-> soc(voltage_cols[k])]
                             ELSE [k \in 1..Len(voltage_cols) |-> cap(voltage_cols[k])]]))

\* ------------------------------------------------------------ input tables

\* Column layouts of the capacity-test tables: no cell voltage column (only
\* the pack voltage), one, and two in either order.
VoltageSchemas ==
    { <<"Test_Time(s)", "Current(A)", "Voltage(V)">>,
      <<"Test_Time(s)", "Current(A)", "Aux_Voltage_1(V)">>,
      <<"Test_Time(s)", "Aux_Voltage_1(V)", "Current(A)", "Aux_Voltage_2(V)">>,
      <<"Test_Time(s)", "Current(A)", "Aux_Voltage_2(V)", "Aux_Voltage_1(V)">> }

\* Strictly increasing sequences of length n over the set S of integers.
Increasing(S, n) ==
    {s \in [1..n -> S] : \A i \in 1..n : \A j \in 1..n : i < j => s[i] < s[j]}

\* Non-decreasing sequences of length n over S: a sorted index.
Sorted(S, n) ==
    {s \in [1..n -> S] : \A i \in 1..n : \A j \in 1..n : i < j => s[i] <= s[j]}

\* Capacity tests sampled every 10 s at -1 A, every voltage column free.
VoltageTable(t) ==
    \E schema \in VoltageSchemas : \E n \in 0..MaxRows :
    \E v \in [Range(schema) \ {"Test_Time(s)", "Current(A)"} -> [1..n -> Volts]] :
        t = DataFrame(schema, [i \in 1..n |-> i],
                      [c \in Range(schema) |->
                          IF c = "Test_Time(s)" THEN [i \in 1..n |-> 50 + 10 * (i - 1)]
                          ELSE IF c = "Current(A)" THEN [i \in 1..n |-> -1]
                          ELSE v[c]])

\* One cell on a falling voltage ramp, current and sample times free.
LoadTable(t) ==
    \E n \in 1..MaxRows :
    \E time \in Increasing(TestTimes, n) : \E cur \in [1..n -> Currents] :
        t = DataFrame(<<"Test_Time(s)", "Current(A)", "Aux_Voltage_1(V)">>,
                      [i \in 1..n |-> i],
                      [c \in {"Test_Time(s)", "Current(A)", "Aux_Voltage_1(V)"} |->
                          IF c = "Test_Time(s)" THEN time
                          ELSE IF c = "Current(A)" THEN cur
                          ELSE [i \in 1..n |-> 200 - 10 * (i - 1)]])

\* Column layouts of the cycling logs: a step column and a cycle column, or
\* a cycle column only.
StepSchemas ==
    { <<"Test_Time(s)", "Step_Index", "Cycle_Index">>,
      <<"Test_Time(s)", "Cycle_Index">> }

\* Logs sorted by Date_Time (several rows may share a day), the step and
\* cycle columns free.
StepTable(t) ==
    \E schema \in StepSchemas : \E n \in 0..MaxRows :
    \E idx \in Sorted(Keys, n) :
    \E v \in [Range(schema) \ {"Test_Time(s)"} -> [1..n -> Steps]] :
        t = DataFrame(schema, idx,
                      [c \in Range(schema) |->
                          IF c = "Test_Time(s)" THEN [i \in 1..n |-> 10 * (i - 1)]
                          ELSE v[c]])

\* The three-row capacity test with cells ending at 1.7 V and 1.85 V.
ExampleTable ==
    DataFrame(<<"Test_Time(s)", "Current(A)", "Aux_Voltage_1(V)", "Aux_Voltage_2(V)">>,
              <<1, 2, 3>>,
              [c \in {"Test_Time(s)", "Current(A)", "Aux_Voltage_1(V)", "Aux_Voltage_2(V)"} |->
                  CASE c = "Test_Time(s)" -> <<0, 10, 20>>
                    [] c = "Current(A)" -> <<-1, -1, -1>>
                    [] c = "Aux_Voltage_1(V)" -> <<200, 190, 170>>
                    [] c = "Aux_Voltage_2(V)" -> <<200, 195, 185>>])

StepColNames == {"Step_Index", "Cycle_Index"}

\* ------------------------------------------------------------ state machine

\* A capacity test has been loaded; no function has been called on it yet.
Init ==
    /\ \/ VoltageTable(df)
       \/ LoadTable(df)
       \/ df = ExampleTable
    /\ call = [op |-> "none", args |-> <<>>]
    /\ result = Ok("None")

Idle == call.op = "none"

Returns(op, args, res) ==
    /\ call' = [op |-> op, args |-> args]
    /\ result' = res
    /\ UNCHANGED df

Call_isolate_timeinterval ==
    /\ Idle
    /\ \E a \in Keys : \E b \in Keys :
          Returns("isolate_timeinterval", <<a, b>>, Ok(isolate_timeinterval(df, a, b)))

Call_isolate_step_index ==
    /\ Idle
    /\ \E s \in Steps : \E n \in StepColNames :
          Returns("isolate_step_index", <<s, n>>, isolate_step_index(df, s, n))

Call_isolate_step_index_in_timeinterval ==
    /\ Idle
    /\ \E a \in Keys : \E b \in Keys : \E s \in Steps : \E n \in StepColNames :
          /\ a <= b
          /\ Returns("isolate_step_index_in_timeinterval", <<a, b, s, n>>,
                     isolate_step_index_in_timeinterval(df, a, b, s, n))

Call_calculate_testtime ==
    /\ Idle
    /\ Returns("calculate_testtime", <<>>, calculate_testtime(df))

Call_get_voltage_column_list ==
    /\ Idle
    /\ Returns("get_voltage_column_list", <<>>, Ok(get_voltage_column_list(df)))

Call_get_number_voltage_columns ==
    /\ Idle
    /\ Returns("get_number_voltage_columns", <<>>, Ok(get_number_voltage_columns(df)))

Call_trim_to_cutoff_voltage ==
    /\ Idle
    /\ \E c \in Cutoffs :
          Returns("trim_to_cutoff_voltage", <<c>>, Ok(trim_to_cutoff_voltage(df, c)))

Call_get_smallest_voltage_cell ==
    /\ Idle
    /\ Returns("get_smallest_voltage_cell", <<>>, get_smallest_voltage_cell(df))

\* The reference cell of a trimmed test: the pipeline trims the table to the
\* cutoff voltage and picks the reference cell from what is left.
Call_get_smallest_voltage_cell_of_trimmed ==
    /\ Idle
    /\ \E c \in Cutoffs :
          Returns("get_smallest_voltage_cell_of_trimmed", <<c>>,
                  get_smallest_voltage_cell(trim_to_cutoff_voltage(df, c)))

Call_get_SOC_reference ==
    /\ Idle
    /\ Returns("get_SOC_reference", <<>>, get_SOC_reference(df))

\* The lookup table is the one get_SOC_reference builds from the table.
Call_soc_from_lut ==
    /\ Idle
    /\ get_SOC_reference(df).ok
    /\ LET refdf == get_SOC_reference(df).val
       IN \E voltage \in LookupVolts \cup Range(refdf.data[refdf.columns[1]]) :
             Returns("soc_from_lut", <<refdf, voltage>>, soc_from_lut(refdf, voltage))

Call_get_smallest_cap_cell ==
    /\ Idle
    /\ Returns("get_smallest_cap_cell", <<>>, get_smallest_cap_cell(df))

Call_get_final_SOC ==
    /\ Idle
    /\ Returns("get_final_SOC", <<>>, get_final_SOC(df))

\* The capacity/SOC analysis of a capacity test.
Next ==
    \/ Call_calculate_testtime
    \/ Call_get_voltage_column_list
    \/ Call_get_number_voltage_columns
    \/ Call_trim_to_cutoff_voltage
    \/ Call_get_smallest_voltage_cell
    \/ Call_get_smallest_voltage_cell_of_trimmed
    \/ Call_get_SOC_reference
    \/ Call_soc_from_lut
    \/ Call_get_smallest_cap_cell
    \/ Call_get_final_SOC

Spec == Init /\ [][Next]_vars

\* A cycling log has been loaded; no filter has been applied yet.
InitFilter ==
    /\ StepTable(df)
    /\ call = [op |-> "none", args |-> <<>>]
    /\ result = Ok("None")

\* The table filters applied to a cycling log.
NextFilter ==
    \/ Call_isolate_timeinterval
    \/ Call_isolate_step_index
    \/ Call_isolate_step_index_in_timeinterval

SpecFilter == InitFilter /\ [][NextFilter]_vars

\* ------------------------------------------------------------------ claims

\* Row i of a table: its index key and its value in every column.
Row(d, i) == [key |-> d.index[i], cells |-> [c \in DOMAIN d.data |-> d.data[c][i]]]

RowSeq(d) == [i \in 1..NRows(d) |-> Row(d, i)]

\* The rows of d, in order, that satisfy Keep.
RowsWhere(d, Keep(_)) == SelectSeq(RowSeq(d), Keep)

IsPrefixOf(s, t) == Len(s) <= Len(t) /\ s = SubSeq(t, 1, Len(s))

NonIncreasing(s) == \A i \in 1..Len(s) : \A j \in 1..Len(s) : i < j => s[i] >= s[j]

\* Every value of every voltage column of table r is at least c.
AllVoltagesAtLeast(r, c) ==
    \A col \in Range(get_voltage_column_list(r)) :
        \A i \in 1..NRows(r) : r.data[col][i] >= c

\* C1 as stated: trim_to_cutoff_voltage(T, c) returns only rows in which
\* every voltage column is >= c, and the returned rows are the first k rows
\* of T for some k.
C1_TrimIsPrefix ==
    call.op = "trim_to_cutoff_voltage" =>
        /\ AllVoltagesAtLeast(result.val, call.args[1])
        /\ IsPrefixOf(RowSeq(result.val), RowSeq(df))

\* C1 amended: trim_to_cutoff_voltage(T, c) returns exactly the rows of T in
\* which every voltage column is >= c, in T's order; the result is a prefix
\* of T's rows when every voltage column of T is non-increasing from row to
\* row.
C1_TrimKeepsRowsAtLeastCutoff ==
    call.op = "trim_to_cutoff_voltage" =>
        LET c == call.args[1]
            cols == Range(get_voltage_column_list(df))
            Keep(row) == \A col \in cols : row.cells[col] >= c
        IN /\ AllVoltagesAtLeast(result.val, c)
           /\ result.val.columns = df.columns
           /\ RowSeq(result.val) = RowsWhere(df, Keep)
           /\ (\A col \in cols : NonIncreasing(df.data[col]))
                  => IsPrefixOf(RowSeq(result.val), RowSeq(df))

\* C1 witness: a two-cell discharge with falling voltages is trimmed to a
\* proper, non-empty prefix.
C1_Witness ==
    /\ call.op = "trim_to_cutoff_voltage"
    /\ Len(get_voltage_column_list(df)) = 2
    /\ \A col \in Range(get_voltage_column_list(df)) : NonIncreasing(df.data[col])
    /\ NRows(result.val) > 0
    /\ NRows(result.val) < NRows(df)

\* The SOC column of a reference table.
SOCColumn(refdf) == refdf.data["SOC_Ref"]

\* The reference voltage column of a reference table.
RefColumn(refdf) == refdf.data[refdf.columns[1]]

\* C2 as stated: for every table with at least one row and at least one
\* voltage column, get_SOC_reference has one row per row of T, first SOC
\* 100.000, last SOC 0.000, and the SOC column is non-increasing.
C2_SOCRampFrom100To0 ==
    (/\ call.op = "get_SOC_reference"
     /\ NRows(df) >= 1
     /\ get_voltage_column_list(df) # <<>>) =>
        /\ result.ok
        /\ NRows(result.val) = NRows(df)
        /\ Len(SOCColumn(result.val)) = NRows(df)
        /\ SOCColumn(result.val)[1] = 100 * Milli
        /\ Last(SOCColumn(result.val)) = 0
        /\ NonIncreasing(SOCColumn(result.val))

\* C2 amended: for every table with at least one row and at least one
\* voltage column, get_SOC_reference has one row per row of T, first SOC
\* 100.000 and a non-increasing SOC column; the last SOC is 0.000 when T has
\* at least two rows, and 100.000 when T has a single row.
C2_SOCRampFrom100To0TwoRows ==
    (/\ call.op = "get_SOC_reference"
     /\ NRows(df) >= 1
     /\ get_voltage_column_list(df) # <<>>) =>
        /\ result.ok
        /\ NRows(result.val) = NRows(df)
        /\ Len(SOCColumn(result.val)) = NRows(df)
        /\ SOCColumn(result.val)[1] = 100 * Milli
        /\ NonIncreasing(SOCColumn(result.val))
        /\ NRows(df) >= 2 => Last(SOCColumn(result.val)) = 0
        /\ NRows(df) = 1 => Last(SOCColumn(result.val)) = 100 * Milli

\* C2 witness: a three-row table gets the ramp 100.000, 50.000, 0.000.
C2_Witness ==
    /\ call.op = "get_SOC_reference"
    /\ NRows(df) = 3
    /\ result.ok
    /\ SOCColumn(result.val) = <<100 * Milli, 50 * Milli, 0>>

\* C3 as stated: soc_from_lut(R, v) with v equal to row j's reference
\* voltage returns row j's SOC, for every row j of R.
C3_ExactVoltageReturnsRowSOC ==
    call.op = "soc_from_lut" =>
        LET refdf == call.args[1]
            v == call.args[2]
        IN \A j \in 1..NRows(refdf) :
              RefColumn(refdf)[j] = v =>
                  result.ok /\ result.val = SOCColumn(refdf)[j]

\* C3 amended: soc_from_lut(R, v) with v equal to row j's reference voltage
\* returns the SOC of the first row of R whose reference voltage is v: row
\* j's SOC when no earlier row has the same reference voltage.
C3_ExactVoltageReturnsFirstRowSOC ==
    call.op = "soc_from_lut" =>
        LET refdf == call.args[1]
            v == call.args[2]
        IN \A j \in 1..NRows(refdf) :
              (/\ RefColumn(refdf)[j] = v
               /\ \A i \in 1..(j - 1) : RefColumn(refdf)[i] # v) =>
                  result.ok /\ result.val = SOCColumn(refdf)[j]

\* C3 witness: the queried voltage is the reference voltage of two rows, and
\* the lookup returns the SOC of the first, which is not the SOC of the
\* second.
C3_Witness ==
    /\ call.op = "soc_from_lut"
    /\ \E i \in 1..NRows(call.args[1]) : \E j \in 1..NRows(call.args[1]) :
          /\ i < j
          /\ RefColumn(call.args[1])[i] = call.args[2]
          /\ RefColumn(call.args[1])[j] = call.args[2]
          /\ \A h \in 1..(i - 1) : RefColumn(call.args[1])[h] # call.args[2]
          /\ result.val = SOCColumn(call.args[1])[i]
          /\ result.val # SOCColumn(call.args[1])[j]

\* C4: for every table with at least one row and at least one voltage
\* column, get_final_SOC has one entry per voltage column, in column order;
\* the entry of column c has SOC = soc_from_lut(get_SOC_reference(T), last
\* value of c) and capacity = cap + cap * SOC / 100 with cap =
\* get_smallest_cap_cell(T).  For the three-row example the entry of
\* Aux_Voltage_2 has SOC 50.0 and capacity 1.5 * 20/3600 Ah.
C4_FinalSOCPerVoltageColumn ==
    (/\ call.op = "get_final_SOC"
     /\ NRows(df) >= 1
     /\ get_voltage_column_list(df) # <<>>) =>
        LET cols == get_voltage_column_list(df)
            out == result.val
            cap0 == get_smallest_cap_cell(df).val
        IN /\ result.ok
           /\ NRows(out) = Len(cols)
           /\ \A k \in 1..Len(cols) :
                 LET soc == out.data["SOC (%)"][k]
                     cap == out.data["Capacity (Ah)"][k]
                 IN /\ out.index[k] = CellID(cols[k])
                    /\ soc = soc_from_lut(get_SOC_reference(df).val,
                                          Last(df.data[cols[k]])).val
                    \* cap = cap0 * (1 + soc/100), soc in thousandths
                    /\ cap = RatMul(cap0, Rat(Percent * Milli + soc, Percent * Milli))
           /\ df = ExampleTable =>
                 /\ out.index[2] = "Cell 2"
                 /\ out.data["SOC (%)"][2] = 50 * Milli
                 /\ cap0 = Rat(20, SecondsPerHour)
                 /\ out.data["Capacity (Ah)"][2] = Rat(3 * 20, 2 * SecondsPerHour)

\* C4 witness: get_final_SOC has run on the three-row example and reports
\* two cells, the second at SOC 50.0.
C4_Witness ==
    /\ call.op = "get_final_SOC"
    /\ df = ExampleTable
    /\ result.ok
    /\ NRows(result.val) = 2
    /\ result.val.data["SOC (%)"][2] = 50 * Milli

\* C5: for every table with at least one row and at least one voltage
\* column, get_smallest_voltage_cell returns a voltage column whose last-row
\* value is the minimum over all voltage columns, and among several such
\* columns the first in column order.
C5_SmallestVoltageCellIsFirstMinimum ==
    (/\ call.op = "get_smallest_voltage_cell"
     /\ NRows(df) >= 1
     /\ get_voltage_column_list(df) # <<>>) =>
        LET cols == get_voltage_column_list(df)
        IN /\ result.ok
           /\ \E k \in 1..Len(cols) :
                 /\ result.val = cols[k]
                 /\ \A j \in 1..Len(cols) :
                       Last(df.data[cols[k]]) <= Last(df.data[cols[j]])
                 /\ \A j \in 1..(k - 1) :
                       Last(df.data[cols[j]]) > Last(df.data[cols[k]])

\* C5 witness: two cells end at the same voltage after different curves, the
\* column of cell 2 comes first, and cell 2 is returned.
C5_Witness ==
    /\ call.op = "get_smallest_voltage_cell"
    /\ get_voltage_column_list(df) = <<"Aux_Voltage_2(V)", "Aux_Voltage_1(V)">>
    /\ NRows(df) >= 2
    /\ Last(df.data["Aux_Voltage_1(V)"]) = Last(df.data["Aux_Voltage_2(V)"])
    /\ df.data["Aux_Voltage_1(V)"][1] < df.data["Aux_Voltage_2(V)"][1]
    /\ result.ok
    /\ result.val = "Aux_Voltage_2(V)"

\* C6: for bounds a <= b, step value s and a column name n of T,
\* isolate_step_index_in_timeinterval(T, a, b, s, n) equals
\* isolate_step_index(isolate_timeinterval(T, a, b), s, n): the rows whose
\* key is in [a, b] and whose column n equals s, whichever column n names.
C6_IntervalFilterUsesGivenColumn ==
    (/\ call.op = "isolate_step_index_in_timeinterval"
     /\ call.args[4] \in Range(df.columns)) =>
        LET a == call.args[1]
            b == call.args[2]
            s == call.args[3]
            n == call.args[4]
            Keep(row) == a <= row.key /\ row.key <= b /\ row.cells[n] = s
        IN /\ result.ok
           /\ result = isolate_step_index(isolate_timeinterval(df, a, b), s, n)
           /\ RowSeq(result.val) = RowsWhere(df, Keep)

\* C7: on a table without voltage columns, whatever its number of rows,
\* get_smallest_voltage_cell, get_SOC_reference and get_final_SOC each fail
\* with an error instead of returning a value.
C7_NoVoltageColumnsFails ==
    (/\ call.op \in {"get_smallest_voltage_cell", "get_SOC_reference", "get_final_SOC"}
     /\ get_voltage_column_list(df) = <<>>) =>
        /\ ~result.ok
        /\ result.err = "IndexError"

\* C7 witness: get_final_SOC has failed on a table with rows and no voltage
\* column.
C7_Witness ==
    /\ call.op = "get_final_SOC"
    /\ get_voltage_column_list(df) = <<>>
    /\ NRows(df) >= 2
    /\ ~result.ok

BelowCutoffAt(d, c, i) ==
    \E col \in Range(get_voltage_column_list(d)) : d.data[col][i] < c

\* C9: for every table whose voltage columns are each non-increasing, and
\* every cutoff c with all first-row voltages >= c and some later voltage
\* < c, the column get_smallest_voltage_cell(trim_to_cutoff_voltage(T, c))
\* returns is below c at the first row r at which any voltage column is
\* below c: the reference cell is the cell that reaches the cutoff first.
C9_ReferenceCellReachesCutoffFirst ==
    (/\ call.op = "get_smallest_voltage_cell_of_trimmed"
     /\ NRows(df) >= 1
     /\ \A col \in Range(get_voltage_column_list(df)) : NonIncreasing(df.data[col])
     /\ ~BelowCutoffAt(df, call.args[1], 1)
     /\ \E i \in 2..NRows(df) : BelowCutoffAt(df, call.args[1], i)) =>
        LET c == call.args[1]
            r == CHOOSE i \in 2..NRows(df) :
                    /\ BelowCutoffAt(df, c, i)
                    /\ \A h \in 1..(i - 1) : ~BelowCutoffAt(df, c, h)
        IN /\ result.ok
           /\ df.data[result.val][r] < c

\* C10: for every table with at least two rows and at least one voltage
\* column whose reference column get_smallest_voltage_cell(T) has pairwise
\* distinct values, the reference cell's entry of get_final_SOC(T) has SOC 0
\* and capacity get_smallest_cap_cell(T), and every entry has a SOC between
\* 0 and 100.
C10_ReferenceCellEndsAtZeroSOC ==
    (/\ call.op = "get_final_SOC"
     /\ NRows(df) >= 2
     /\ get_voltage_column_list(df) # <<>>
     /\ LET ref == df.data[get_smallest_voltage_cell(df).val]
        IN \A i \in 1..Len(ref) : \A j \in 1..Len(ref) : i # j => ref[i] # ref[j]) =>
        LET cols == get_voltage_column_list(df)
            out == result.val
        IN /\ result.ok
           /\ \A k \in 1..Len(cols) :
                 /\ out.data["SOC (%)"][k] >= 0
                 /\ out.data["SOC (%)"][k] <= 100 * Milli
                 /\ cols[k] = get_smallest_voltage_cell(df).val =>
                       /\ out.data["SOC (%)"][k] = 0
                       /\ out.data["Capacity (Ah)"][k] = get_smallest_cap_cell(df).val

\* C10 witness: a three-row test of two cells; the reference cell, second in
\* column order, is reported at SOC 0 and the other cell above 0, and the
\* reference capacity is not zero.
C10_Witness ==
    /\ call.op = "get_final_SOC"
    /\ NRows(df) = 3
    /\ Len(get_voltage_column_list(df)) = 2
    /\ result.ok
    /\ get_smallest_voltage_cell(df).val = get_voltage_column_list(df)[2]
    /\ LET ref == df.data[get_smallest_voltage_cell(df).val]
       IN \A i \in 1..Len(ref) : \A j \in 1..Len(ref) : i # j => ref[i] # ref[j]
    /\ result.val.data["SOC (%)"][2] = 0
    /\ result.val.data["SOC (%)"][1] > 0
    /\ result.val.data["Capacity (Ah)"][2] = get_smallest_cap_cell(df).val
    /\ get_smallest_cap_cell(df).val.num > 0

====
